---- MODULE Spec2Model ----
(***************************************************************************)
(* A model of freeze.py: the checksum database (load_db / write_db), the   *)
(* directory scan and diff (check), the dirty gate (is_dirty), the         *)
(* review/commit workflow (interactive_check) and replication (replicate,  *)
(* make_parents, shutil.copy2).                                            *)
(*                                                                         *)
(* Text is a sequence of one-character strings.  A tree is a root that     *)
(* exists, a function from relative file path to file content, a set of    *)
(* directories and a sidecar file root/.sha1sums.  A Python dict is a      *)
(* sequence of <<key, value>> pairs in insertion order.                    *)
(***************************************************************************)
EXTENDS Integers, Sequences, FiniteSets, TLC

(***************************************************************************)
(* Bounds of the model.                                                    *)
(***************************************************************************)
\* files a tree tracks in an initial state, and files a user edit may leave
MaxFiles == 2
\* distinct file contents 1..NumContents
NumContents == 2
\* edits a user makes to the trees between runs of the program
MaxEdits == 1
\* entries of a database in the round-trip specification
MaxEntries == 2
\* characters of a key in the round-trip specification
MaxKeyLen == 2

(***************************************************************************)
(* Characters and strings.                                                 *)
(***************************************************************************)
TAB == "\t"
NL == "\n"
SLASH == "/"
\* the characters str.rstrip() removes that occur in the model
Whitespace == {" ", TAB, NL}

\* str.rstrip()
RECURSIVE rstrip(_)
rstrip(s) ==
    IF Len(s) > 0 /\ s[Len(s)] \in Whitespace
    THEN rstrip(SubSeq(s, 1, Len(s) - 1))
    ELSE s

\* index of the first c in s, 0 if there is none
FindFirst(s, c) ==
    IF \E i \in 1..Len(s) : s[i] = c
    THEN CHOOSE i \in 1..Len(s) : s[i] = c /\ \A j \in 1..(i - 1) : s[j] # c
    ELSE 0

\* index of the last c in s, 0 if there is none
FindLast(s, c) ==
    IF \E i \in 1..Len(s) : s[i] = c
    THEN CHOOSE i \in 1..Len(s) : s[i] = c /\ \A j \in (i + 1)..Len(s) : s[j] # c
    ELSE 0

\* str.endswith(suffix)
EndsWith(s, suffix) ==
    /\ Len(s) >= Len(suffix)
    /\ SubSeq(s, Len(s) - Len(suffix) + 1, Len(s)) = suffix

\* fd.readlines(): the lines of a text, each with its newline
RECURSIVE readlines(_)
readlines(text) ==
    IF text = <<>> THEN <<>>
    ELSE LET i == FindFirst(text, NL)
         IN  IF i = 0 THEN <<text>>
             ELSE <<SubSeq(text, 1, i)>> \o readlines(SubSeq(text, i + 1, Len(text)))

(***************************************************************************)
(* Python dict, insertion ordered.                                         *)
(***************************************************************************)
Keys(d) == {d[i][1] : i \in 1..Len(d)}
KeyList(d) == [i \in 1..Len(d) |-> d[i][1]]
Has(d, k) == \E i \in 1..Len(d) : d[i][1] = k
\* the value dict.get(k) gives for a missing key
None == <<"None">>
\* d.get(k)
Get(d, k) == IF Has(d, k) THEN d[CHOOSE i \in 1..Len(d) : d[i][1] = k][2] ELSE None
\* d[k] = v
Put(d, k, v) ==
    IF Has(d, k)
    THEN [i \in 1..Len(d) |-> IF d[i][1] = k THEN <<k, v>> ELSE d[i]]
    ELSE Append(d, <<k, v>>)
\* del d[k]
Del(d, k) == SelectSeq(d, LAMBDA e : e[1] # k)
\* the truth value of d.get(k): None and the empty string are false
Truthy(v) == v # None /\ v # <<>>

(***************************************************************************)
(* Paths (os.path).                                                        *)
(***************************************************************************)
\* os.path.split(p)[0]: the empty path is the tree root
Dirname(p) == LET i == FindLast(p, SLASH) IN IF i = 0 THEN <<>> ELSE SubSeq(p, 1, i - 1)
\* os.path.split(p)[1]
Basename(p) == LET i == FindLast(p, SLASH) IN SubSeq(p, i + 1, Len(p))
\* os.path.join(d, name) below the tree root
Join(d, name) == IF d = <<>> THEN name ELSE d \o <<SLASH>> \o name
\* the ancestor directories of p below the root
RECURSIVE Ancestors(_)
Ancestors(p) == IF Dirname(p) = <<>> THEN {} ELSE {Dirname(p)} \cup Ancestors(Dirname(p))

\* the sidecar's name and the name of an in-progress sidecar
SidecarName == <<".", "s", "h", "a", "1", "s", "u", "m", "s">>
SidecarNewName == SidecarName \o <<"_", "n", "e", "w">>

\* hashlib.sha1(content).hexdigest(): an injective function of the content
Hex == <<"1", "2", "3", "4", "5", "6", "7", "8", "9">>
Sha1(c) == IF c = 0 THEN <<"0">> ELSE <<Hex[c]>>

(***************************************************************************)
(* The hash database: load_db and write_db.                                *)
(***************************************************************************)
\* a sidecar file: absent, or present with a text
NoFile == [exists |-> FALSE, text |-> <<>>]
TextFile(text) == [exists |-> TRUE, text |-> text]

\* the line write_db writes for one entry
DbLine(e) == e[2] \o <<TAB>> \o e[1] \o <<NL>>

\* the text write_db writes: one line per key, in the dict's order
RECURSIVE DbText(_)
DbText(hashdb) == IF hashdb = <<>> THEN <<>> ELSE DbLine(Head(hashdb)) \o DbText(Tail(hashdb))

\* write_db(sumfile, hashdb): the file it leaves
write_db(hashdb) == TextFile(DbText(hashdb))

\* load_db's loop, were it to skip a line without a separator
RECURSIVE LoadLinesSkipping(_, _)
LoadLinesSkipping(lines, hashdb) ==
    IF lines = <<>> THEN [ok |-> TRUE, db |-> hashdb]
    ELSE LET line == rstrip(Head(lines))
             i == FindFirst(line, TAB)
         IN  IF i = 0 THEN LoadLinesSkipping(Tail(lines), hashdb)
             ELSE LoadLinesSkipping(Tail(lines),
                                    Put(hashdb, SubSeq(line, i + 1, Len(line)), SubSeq(line, 1, i - 1)))

\* the loop of load_db: ok is FALSE when line.split raises ValueError
RECURSIVE LoadLines(_, _)
LoadLines(lines, hashdb) ==
    IF lines = <<>> THEN [ok |-> TRUE, db |-> hashdb]
    ELSE LET line == rstrip(Head(lines))
             i == FindFirst(line, TAB)
         IN  IF i = 0 THEN [ok |-> FALSE, db |-> <<>>]
             ELSE LoadLines(Tail(lines),
                            Put(hashdb, SubSeq(line, i + 1, Len(line)), SubSeq(line, 1, i - 1)))

\* load_db, were it to fail when os.path.exists(sumfile) is false
load_db_requiring_sumfile(sumfile) ==
    IF sumfile.exists THEN LoadLines(readlines(sumfile.text), <<>>)
    ELSE [ok |-> FALSE, db |-> <<>>]

\* load_db(sumfile)
load_db(sumfile) ==
    IF sumfile.exists THEN LoadLines(readlines(sumfile.text), <<>>)
    ELSE [ok |-> TRUE, db |-> <<>>]

(***************************************************************************)
(* is_dirty and check.                                                     *)
(***************************************************************************)
\* is_dirty, were it to leave out the test of the changes
is_dirty_without_changes(data) ==
    IF Len(data.additions) > 0 THEN TRUE
    ELSE IF Len(data.deletions) > 0 THEN TRUE
    ELSE FALSE

\* is_dirty, were it to leave out the test of the deletions
is_dirty_without_deletions(data) ==
    IF Len(data.additions) > 0 THEN TRUE
    ELSE IF Len(data.changes) > 0 THEN TRUE
    ELSE FALSE

\* is_dirty(data)
is_dirty(data) ==
    IF Len(data.additions) > 0 THEN TRUE
    ELSE IF Len(data.deletions) > 0 THEN TRUE
    ELSE IF Len(data.changes) > 0 THEN TRUE
    ELSE FALSE

\* the file names os.walk's loop skips
Excluded(name) == EndsWith(name, SidecarName) \/ EndsWith(name, SidecarNewName)

\* filelist: the relative paths of the files check hashes
FileList(tree) == {p \in DOMAIN tree : ~Excluded(Basename(p))}

\* the orders in which a set can be iterated
Orders(S) ==
    {o \in [1..Cardinality(S) -> S] : \A i, j \in 1..Cardinality(S) : i # j => o[i] # o[j]}

\* what check returns when load_db raises
NoData == [ok |-> FALSE, db |-> <<>>, deletions |-> <<>>, additions |-> <<>>, changes |-> <<>>]
\* the value of a variable that holds no check result
EmptyData == [ok |-> TRUE, db |-> <<>>, deletions |-> <<>>, additions |-> <<>>, changes |-> <<>>]

\* the deletions, were the test "not file in filelist" to lose its "not"
DeletionsInFilelist(hashdb, filelist) == SelectSeq(KeyList(hashdb), LAMBDA k : k \in filelist)

\* the deletions check finds: the keys of hashdb not in filelist, in the dict's order
Deletions(hashdb, filelist) == SelectSeq(KeyList(hashdb), LAMBDA k : k \notin filelist)

\* check(directory), iterating filelist in the order ord
check(tree, sumfile, ord) ==
    LET loaded == load_db(sumfile)
        hashdb == loaded.db
        added == SelectSeq(ord, LAMBDA p : ~Has(hashdb, p))
        changed == SelectSeq(ord, LAMBDA p : Has(hashdb, p) /\ Get(hashdb, p) # Sha1(tree[p]))
    IN  IF ~loaded.ok THEN NoData
        ELSE [ok |-> TRUE,
              db |-> hashdb,
              deletions |-> Deletions(hashdb, FileList(tree)),
              additions |-> [i \in 1..Len(added) |-> <<added[i], Sha1(tree[added[i]])>>],
              changes |-> [i \in 1..Len(changed) |-> <<changed[i], Sha1(tree[changed[i]])>>]]

\* every result check can return for a tree
CheckResults(tree, sumfile) == {check(tree, sumfile, ord) : ord \in Orders(FileList(tree))}

(***************************************************************************)
(* make_parents and shutil.copy2.                                          *)
(***************************************************************************)
\* os.path.isdir
IsDir(ds, d) == d = <<>> \/ d \in ds
\* os.path.exists
Exists(tree, ds, p) == IsDir(ds, p) \/ p \in DOMAIN tree

\* the loop of make_parents: os.mkdir(directory) raises unless the parent of
\* directory is a directory
RECURSIVE MkdirLoop(_, _, _)
MkdirLoop(tree, ds, directory) ==
    IF Exists(tree, ds, directory) THEN [ok |-> TRUE, dirs |-> ds]
    ELSE IF ~IsDir(ds, Dirname(directory)) THEN [ok |-> FALSE, dirs |-> ds]
    ELSE MkdirLoop(tree, ds \cup {directory}, Dirname(directory))

\* make_parents(filepath)
make_parents(tree, ds, filepath) == MkdirLoop(tree, ds, Dirname(filepath))

\* the file shutil.copy2(srcpath, dstpath) writes: into dstpath when it is a directory
CopyTarget(ds, srcpath, dstpath) ==
    IF IsDir(ds, dstpath) THEN Join(dstpath, Basename(srcpath)) ELSE dstpath

\* shutil.copy2(srcpath, dstpath): ok is FALSE when it raises
copy2(srctree, dsttree, ds, srcpath, dstpath) ==
    LET target == CopyTarget(ds, srcpath, dstpath)
    IN  IF srcpath \notin DOMAIN srctree THEN [ok |-> FALSE, tree |-> dsttree]
        ELSE IF IsDir(ds, target) \/ ~IsDir(ds, Dirname(target))
                \/ \E a \in Ancestors(target) : a \in DOMAIN dsttree
             THEN [ok |-> FALSE, tree |-> dsttree]
        ELSE [ok |-> TRUE,
              tree |-> [p \in DOMAIN dsttree \cup {target} |->
                          IF p = target THEN srctree[srcpath] ELSE dsttree[p]]]

(***************************************************************************)
(* The state: two trees, and one run of the program at a time.             *)
(***************************************************************************)
VARIABLES
    files,      \* files[s]: relative path -> content of the files of tree s
    dirs,       \* dirs[s]: the directories below the root of tree s
    sidecar,    \* sidecar[s]: the file s/.sha1sums
    edits,      \* user edits made so far
    pc,         \* the position of the running program, "idle" when none runs
    op,         \* the subcommand that runs: "check", "replicate" or "none"
    side,       \* the tree interactive_check works on
    results,    \* interactive_check: what check returned
    commit,     \* interactive_check: the line read from standard input
    srcdata,    \* replicate: what check(src) returned
    dstdata,    \* replicate: what check(dst) returned
    newdsthash, \* replicate: the destination dict, updated in memory
    todo,       \* replicate: the keys of the source dict still to visit
    reported,   \* replicate: the paths it refused to delete
    copied,     \* replicate: the keys whose shutil.copy2 call has returned
    outcome,    \* how the run ended
    exitcode,   \* the exit status of the process, -1 while it runs
    files0,     \* the trees when the run started
    dirs0,
    sidecar0,
    rt_db,      \* round trip: the dict given to write_db
    rt_file,    \* round trip: the file write_db left
    rt_loaded,  \* round trip: what load_db returned for it
    rt_pc,      \* round trip: "start", "saved", "loaded"
    gate_data,  \* dirty gate: the check result given to is_dirty
    gate_result,\* dirty gate: what is_dirty returned
    gate_pc,    \* dirty gate: "start", "tested"
    argv,       \* sys.argv[1:] of the run
    reads,      \* reads[s]: calls of load_db on the sidecar of tree s in the run
    writes      \* writes[s]: calls of write_db on the sidecar of tree s in the run

fsvars == <<files, dirs, sidecar>>
locals == <<side, results, commit, srcdata, dstdata, newdsthash, todo, reported, copied>>
startvars == <<files0, dirs0, sidecar0>>
rtvars == <<rt_db, rt_file, rt_loaded, rt_pc, gate_data, gate_result, gate_pc>>
iovars == <<argv, reads, writes>>
vars == <<files, dirs, sidecar, edits, pc, op, side, results, commit, srcdata, dstdata,
          newdsthash, todo, reported, copied, outcome, exitcode, files0, dirs0, sidecar0,
          rt_db, rt_file, rt_loaded, rt_pc, gate_data, gate_result, gate_pc,
          argv, reads, writes>>

Sides == {"src", "dst"}
Contents == 1..NumContents

\* paths a tree tracks in an initial state
CleanPaths == {<<"a">>, <<"b">>, <<"a", "/", "a">>, <<"a", "/", "a", "/", "a">>}
\* paths a user creates: these, a name that ends in a space, and a user
\* file whose name ends in ".sha1sums"
PathUniverse == CleanPaths \cup {<<"b", " ">>, <<"b">> \o SidecarName}
\* lines without a tab separator a user may leave in a sidecar
MalformedLines == {<<"1", "a", NL>>, <<NL>>}
\* lines the reviewer may type
Answers == {<<>>, <<"y">>, <<"Y">>, <<"n">>, <<"y", "e", "s">>, <<"n", "o">>, <<" ", "y">>}

\* no path of the set is a directory of another
ConflictFree(paths) == \A p, q \in paths : p \notin Ancestors(q)

\* the databases of the initial trees: path and content of at most MaxFiles files
InitDbs ==
    UNION {{d \in [1..n -> CleanPaths \X Contents] :
              /\ \A i, j \in 1..n : i # j => d[i][1] # d[j][1]
              /\ ConflictFree({d[i][1] : i \in 1..n})} : n \in 0..MaxFiles}

\* the tree, the directories and the sidecar of a tree that was committed with d
TreeOf(d) == [p \in Keys(d) |-> Get(d, p)]
DirsOf(paths) == UNION {Ancestors(p) : p \in paths}
HashDbOf(d) == [i \in 1..Len(d) |-> <<d[i][1], Sha1(d[i][2])>>]
SidecarOf(d) == IF d = <<>> THEN NoFile ELSE write_db(HashDbOf(d))

NoTree == [s \in Sides |-> <<>>]
NoDirs == [s \in Sides |-> {}]
NoSidecars == [s \in Sides |-> NoFile]
\* no call of load_db or write_db yet
NoCalls == [s \in Sides |-> 0]

\* the program's variables when no run is in progress
Idle ==
    /\ pc = "idle" /\ op = "none" /\ side = "none"
    /\ results = EmptyData /\ commit = <<>>
    /\ srcdata = EmptyData /\ dstdata = EmptyData
    /\ newdsthash = <<>> /\ todo = <<>> /\ reported = <<>> /\ copied = {}
    /\ outcome = "none" /\ exitcode = -1
    /\ files0 = NoTree /\ dirs0 = NoDirs /\ sidecar0 = NoSidecars
    /\ argv = <<>> /\ reads = NoCalls /\ writes = NoCalls

\* the dirty-gate variables outside the dirty-gate specification
GateIdle == gate_data = EmptyData /\ gate_result = FALSE /\ gate_pc = "none"

\* the round-trip and dirty-gate variables outside their specifications
RtIdle ==
    /\ rt_db = <<>> /\ rt_file = NoFile /\ rt_loaded = [ok |-> TRUE, db |-> <<>>] /\ rt_pc = "none"
    /\ GateIdle

\* two committed trees
Init ==
    /\ \E s, d \in InitDbs :
        /\ files = [x \in Sides |-> IF x = "src" THEN TreeOf(s) ELSE TreeOf(d)]
        /\ dirs = [x \in Sides |-> IF x = "src" THEN DirsOf(Keys(s)) ELSE DirsOf(Keys(d))]
        /\ sidecar = [x \in Sides |-> IF x = "src" THEN SidecarOf(s) ELSE SidecarOf(d)]
    /\ edits = 0
    /\ Idle
    /\ RtIdle

(***************************************************************************)
(* The user edits a tree between runs.                                     *)
(***************************************************************************)
\* the tree with file p holding content c
WithFile(tree, p, c) == [q \in DOMAIN tree \cup {p} |-> IF q = p THEN c ELSE tree[q]]
\* the tree without file p
WithoutFile(tree, p) == [q \in DOMAIN tree \ {p} |-> tree[q]]

UserWrite(s, p, c) ==
    /\ pc = "idle" /\ edits < MaxEdits
    /\ p \notin dirs[s]
    /\ \A a \in Ancestors(p) : a \notin DOMAIN files[s]
    /\ Cardinality(DOMAIN files[s] \cup {p}) <= MaxFiles
    /\ p \in DOMAIN files[s] => files[s][p] # c
    /\ files' = [files EXCEPT ![s] = WithFile(files[s], p, c)]
    /\ dirs' = [dirs EXCEPT ![s] = dirs[s] \cup Ancestors(p)]
    /\ edits' = edits + 1
    /\ UNCHANGED <<sidecar, pc, op, locals, outcome, exitcode, startvars, rtvars, iovars>>

UserDelete(s, p) ==
    /\ pc = "idle" /\ edits < MaxEdits
    /\ p \in DOMAIN files[s]
    /\ files' = [files EXCEPT ![s] = WithoutFile(files[s], p)]
    /\ edits' = edits + 1
    /\ UNCHANGED <<dirs, sidecar, pc, op, locals, outcome, exitcode, startvars, rtvars, iovars>>

UserCorrupt(s, line, atEnd) ==
    /\ pc = "idle" /\ edits < MaxEdits
    /\ sidecar[s].exists
    /\ sidecar' = [sidecar EXCEPT ![s] =
                     TextFile(IF atEnd THEN sidecar[s].text \o line ELSE line \o sidecar[s].text)]
    /\ edits' = edits + 1
    /\ UNCHANGED <<files, dirs, pc, op, locals, outcome, exitcode, startvars, rtvars, iovars>>

UserRemoveSidecar(s) ==
    /\ pc = "idle" /\ edits < MaxEdits
    /\ sidecar[s].exists
    /\ sidecar' = [sidecar EXCEPT ![s] = NoFile]
    /\ edits' = edits + 1
    /\ UNCHANGED <<files, dirs, pc, op, locals, outcome, exitcode, startvars, rtvars, iovars>>

UserEdit ==
    \E s \in Sides :
        \/ \E p \in PathUniverse, c \in Contents : UserWrite(s, p, c)
        \/ \E p \in PathUniverse : UserDelete(s, p)
        \/ \E line \in MalformedLines, atEnd \in BOOLEAN : UserCorrupt(s, line, atEnd)
        \/ UserRemoveSidecar(s)

\* a run starts: remember the trees
Started ==
    /\ files0' = files /\ dirs0' = dirs /\ sidecar0' = sidecar

(***************************************************************************)
(* The command line (__main__).                                            *)
(***************************************************************************)
\* what __main__ does with sys.argv[1:]: "usage" is usage() and exit(1), and
\* "nameerror" is the else branch, whose print names the undefined sumcommand
Dispatch(args) ==
    IF Len(args) + 1 < 2 THEN "usage"
    ELSE IF args[1] = "check" THEN (IF Len(args) + 1 < 3 THEN "usage" ELSE "check")
    ELSE IF args[1] = "replicate" THEN (IF Len(args) + 1 < 4 THEN "usage" ELSE "replicate")
    ELSE "nameerror"

\* command lines that name no operation to run
BadArgs == {<<>>, <<"check">>, <<"replicate", "src">>, <<"verify", "src">>}

\* __main__ for a command line that runs neither interactive_check nor replicate
MainUsage(args) ==
    /\ pc = "idle"
    /\ Dispatch(args) \in {"usage", "nameerror"}
    /\ argv' = args
    /\ op' = "main"
    /\ Started
    /\ exitcode' = 1
    /\ IF Dispatch(args) = "usage"
       THEN pc' = "done" /\ outcome' = "usage"
       ELSE pc' = "crashed" /\ outcome' = "exception"
    /\ UNCHANGED <<fsvars, edits, locals, rtvars, reads, writes>>

(***************************************************************************)
(* interactive_check: the review/commit workflow.                          *)
(***************************************************************************)
\* str.startswith(prefix)
StartsWith(s, prefix) == Len(s) >= Len(prefix) /\ SubSeq(s, 1, Len(prefix)) = prefix

\* the test of the answer, were it to accept the lower-case letter only
AffirmativeLowerCase(answer) == StartsWith(answer, <<"y">>)

\* commit.startswith("y") or commit.startswith("Y")
Affirmative(answer) == StartsWith(answer, <<"y">>) \/ StartsWith(answer, <<"Y">>)

\* for (name, filehash) in entries: hashdb[name] = filehash
RECURSIVE PutAll(_, _)
PutAll(hashdb, entries) ==
    IF entries = <<>> THEN hashdb
    ELSE PutAll(Put(hashdb, Head(entries)[1], Head(entries)[2]), Tail(entries))

\* for name in names: del hashdb[name]
RECURSIVE DelAll(_, _)
DelAll(hashdb, names) ==
    IF names = <<>> THEN hashdb ELSE DelAll(Del(hashdb, Head(names)), Tail(names))

\* the dict interactive_check writes after an affirmative answer
Committed(data) == DelAll(PutAll(PutAll(data.db, data.additions), data.changes), data.deletions)

\* interactive_check up to the prompt: check(directory) and the report
InteractiveCheckScan(s) ==
    /\ pc = "idle"
    /\ Dispatch(<<"check", s>>) = "check"
    /\ argv' = <<"check", s>>
    /\ op' = "check" /\ side' = s
    /\ Started
    /\ reads' = [reads EXCEPT ![s] = @ + 1]
    /\ UNCHANGED writes
    /\ \E r \in CheckResults(files[s], sidecar[s]) :
        /\ results' = r
        /\ IF r.ok
           THEN pc' = "c_prompt" /\ UNCHANGED <<outcome, exitcode>>
           ELSE pc' = "crashed" /\ outcome' = "exception" /\ exitcode' = 1
    /\ UNCHANGED <<fsvars, edits, commit, srcdata, dstdata, newdsthash, todo, reported,
                   copied, rtvars>>

\* interactive_check from the prompt: the answer, and the commit or the exit
InteractiveCheckAnswer(answer) ==
    /\ pc = "c_prompt"
    /\ commit' = answer
    /\ pc' = "done"
    /\ exitcode' = 0
    /\ IF ~Affirmative(answer)
       THEN /\ outcome' = "Canceled"
            /\ UNCHANGED <<sidecar, results, writes>>
       ELSE /\ outcome' = "Committed"
            /\ results' = [results EXCEPT !.db = Committed(results)]
            /\ sidecar' = [sidecar EXCEPT ![side] = write_db(Committed(results))]
            /\ writes' = [writes EXCEPT ![side] = @ + 1]
    /\ UNCHANGED <<files, dirs, edits, op, side, srcdata, dstdata, newdsthash, todo, reported,
                   copied, startvars, rtvars, argv, reads>>

(***************************************************************************)
(* replicate.                                                              *)
(***************************************************************************)
\* replicate: check(src) and check(dst)
ReplicateCheck ==
    /\ pc = "idle"
    /\ Dispatch(<<"replicate", "src", "dst">>) = "replicate"
    /\ argv' = <<"replicate", "src", "dst">>
    /\ op' = "replicate"
    /\ Started
    /\ UNCHANGED writes
    /\ \E rs \in CheckResults(files["src"], sidecar["src"]) :
        /\ srcdata' = rs
        /\ IF ~rs.ok
           THEN pc' = "crashed" /\ outcome' = "exception" /\ exitcode' = 1
                /\ reads' = [reads EXCEPT !["src"] = @ + 1]
                /\ UNCHANGED dstdata
           ELSE \E rd \in CheckResults(files["dst"], sidecar["dst"]) :
                   /\ dstdata' = rd
                   /\ reads' = [s \in Sides |-> reads[s] + 1]
                   /\ IF ~rd.ok
                      THEN pc' = "crashed" /\ outcome' = "exception" /\ exitcode' = 1
                      ELSE pc' = "r_gate" /\ UNCHANGED <<outcome, exitcode>>
    /\ UNCHANGED <<fsvars, edits, side, results, commit, newdsthash, todo, reported,
                   copied, rtvars>>

\* replicate: the two is_dirty tests, and newdsthash = dstdata["db"]
ReplicateGate ==
    /\ pc = "r_gate"
    /\ IF is_dirty(srcdata)
       THEN /\ pc' = "done" /\ outcome' = "refused_src" /\ exitcode' = 0
            /\ UNCHANGED <<newdsthash, todo>>
       ELSE IF is_dirty(dstdata)
       THEN /\ pc' = "done" /\ outcome' = "refused_dst" /\ exitcode' = 0
            /\ UNCHANGED <<newdsthash, todo>>
       ELSE /\ pc' = "r_loop"
            /\ newdsthash' = dstdata.db
            /\ todo' = KeyList(srcdata.db)
            /\ UNCHANGED <<outcome, exitcode>>
    /\ UNCHANGED <<fsvars, edits, op, side, results, commit, srcdata, dstdata, reported,
                   copied, startvars, rtvars, iovars>>

\* an iteration of the copy loop, were it to write the sidecar as soon as it has
\* recorded the digest of an added file, before the file is copied
ReplicateIterationPersisting(srctree, dsttree, ds, sumfile, srcdb, hashdb, srcfile) ==
    LET srchash == Get(srcdb, srcfile)
        dsthash == Get(hashdb, srcfile)
    IN  IF Truthy(dsthash)
        THEN IF dsthash # srchash
             THEN LET c == copy2(srctree, dsttree, ds, srcfile, srcfile)
                  IN  [ok |-> c.ok, tree |-> c.tree, dirs |-> ds, sidecar |-> sumfile,
                       hashdb |-> IF c.ok THEN Put(hashdb, srcfile, srchash) ELSE hashdb,
                       copied |-> IF c.ok THEN {srcfile} ELSE {}]
             ELSE [ok |-> TRUE, tree |-> dsttree, dirs |-> ds, sidecar |-> sumfile,
                   hashdb |-> hashdb, copied |-> {}]
        ELSE LET m == make_parents(dsttree, ds, srcfile)
                 c == copy2(srctree, dsttree, m.dirs, srcfile, srcfile)
             IN  IF ~m.ok
                 THEN [ok |-> FALSE, tree |-> dsttree, dirs |-> m.dirs, sidecar |-> sumfile,
                       hashdb |-> hashdb, copied |-> {}]
                 ELSE [ok |-> c.ok, tree |-> c.tree, dirs |-> m.dirs,
                       sidecar |-> write_db(Put(hashdb, srcfile, srchash)),
                       hashdb |-> Put(hashdb, srcfile, srchash),
                       copied |-> IF c.ok THEN {srcfile} ELSE {}]

\* one iteration of the loop over srcdata["db"].keys(): the destination tree, its
\* directories, its sidecar and the dict the iteration leaves; ok is FALSE when
\* make_parents or shutil.copy2 raises
ReplicateIteration(srctree, dsttree, ds, sumfile, srcdb, hashdb, srcfile) ==
    LET srchash == Get(srcdb, srcfile)
        dsthash == Get(hashdb, srcfile)
    IN  IF Truthy(dsthash)
        THEN IF dsthash # srchash
             THEN LET c == copy2(srctree, dsttree, ds, srcfile, srcfile)
                  IN  [ok |-> c.ok, tree |-> c.tree, dirs |-> ds, sidecar |-> sumfile,
                       hashdb |-> IF c.ok THEN Put(hashdb, srcfile, srchash) ELSE hashdb,
                       copied |-> IF c.ok THEN {srcfile} ELSE {}]
             ELSE [ok |-> TRUE, tree |-> dsttree, dirs |-> ds, sidecar |-> sumfile,
                   hashdb |-> hashdb, copied |-> {}]
        ELSE LET m == make_parents(dsttree, ds, srcfile)
                 c == copy2(srctree, dsttree, m.dirs, srcfile, srcfile)
             IN  IF ~m.ok
                 THEN [ok |-> FALSE, tree |-> dsttree, dirs |-> m.dirs, sidecar |-> sumfile,
                       hashdb |-> hashdb, copied |-> {}]
                 ELSE [ok |-> c.ok, tree |-> c.tree, dirs |-> m.dirs, sidecar |-> sumfile,
                       hashdb |-> Put(hashdb, srcfile, srchash),
                       copied |-> IF c.ok THEN {srcfile} ELSE {}]

\* replicate: the loop body for the next key of the source dict
ReplicateCopy ==
    /\ pc = "r_loop" /\ todo # <<>>
    /\ LET it == ReplicateIteration(files["src"], files["dst"], dirs["dst"], sidecar["dst"],
                                    srcdata.db, newdsthash, Head(todo))
       IN  /\ files' = [files EXCEPT !["dst"] = it.tree]
           /\ dirs' = [dirs EXCEPT !["dst"] = it.dirs]
           /\ sidecar' = [sidecar EXCEPT !["dst"] = it.sidecar]
           /\ newdsthash' = it.hashdb
           /\ copied' = copied \cup it.copied
           /\ IF it.ok
              THEN pc' = "r_loop" /\ todo' = Tail(todo) /\ UNCHANGED <<outcome, exitcode>>
              ELSE pc' = "crashed" /\ outcome' = "exception" /\ exitcode' = 1
                   /\ UNCHANGED todo
    /\ UNCHANGED <<edits, op, side, results, commit, srcdata, dstdata, reported,
                   startvars, rtvars, iovars>>

\* the paths the loop over newdsthash refuses to delete
Refused(hashdb, srcdb) == SelectSeq(KeyList(hashdb), LAMBDA k : ~Truthy(Get(srcdb, k)))

\* replicate: the loop over newdsthash, which only prints
ReplicateReport ==
    /\ pc = "r_loop" /\ todo = <<>>
    /\ reported' = Refused(newdsthash, srcdata.db)
    /\ pc' = "r_write"
    /\ UNCHANGED <<fsvars, edits, op, side, results, commit, srcdata, dstdata, newdsthash,
                   todo, copied, outcome, exitcode, startvars, rtvars, iovars>>

\* the tree whose sidecar replicate writes, were it the source's
SumfileSideSource == "src"

\* the tree whose sidecar replicate writes: os.path.join(dst, ".sha1sums")
SumfileSide == "dst"

\* the last step of replicate, were write_db called only after some copy
ReplicateWriteIfCopied ==
    /\ pc = "r_write"
    /\ IF copied = {}
       THEN UNCHANGED <<sidecar, writes>>
       ELSE /\ sidecar' = [sidecar EXCEPT ![SumfileSide] = write_db(newdsthash)]
            /\ writes' = [writes EXCEPT ![SumfileSide] = @ + 1]
    /\ pc' = "done" /\ outcome' = "replicated" /\ exitcode' = 0
    /\ UNCHANGED <<files, dirs, edits, op, side, results, commit, srcdata, dstdata,
                   newdsthash, todo, reported, copied, startvars, rtvars, argv, reads>>

\* replicate: write_db(os.path.join(dst, ".sha1sums"), newdsthash)
ReplicateWrite ==
    /\ pc = "r_write"
    /\ sidecar' = [sidecar EXCEPT ![SumfileSide] = write_db(newdsthash)]
    /\ writes' = [writes EXCEPT ![SumfileSide] = @ + 1]
    /\ pc' = "done" /\ outcome' = "replicated" /\ exitcode' = 0
    /\ UNCHANGED <<files, dirs, edits, op, side, results, commit, srcdata, dstdata,
                   newdsthash, todo, reported, copied, startvars, rtvars, argv, reads>>

(***************************************************************************)
(* replicate is killed, or an I/O error ends it.                           *)
(***************************************************************************)
\* between two steps
Interrupt ==
    /\ pc \in {"r_gate", "r_loop", "r_write"}
    /\ pc' = "interrupted" /\ outcome' = "killed" /\ exitcode' = 1
    /\ UNCHANGED <<fsvars, edits, op, locals, startvars, rtvars, iovars>>

\* inside an iteration of the copy loop: after make_parents, or with the
\* destination file partly written (content 0)
InterruptCopy(partly) ==
    /\ pc = "r_loop" /\ todo # <<>>
    /\ LET it == ReplicateIteration(files["src"], files["dst"], dirs["dst"], sidecar["dst"],
                                    srcdata.db, newdsthash, Head(todo))
           target == CopyTarget(it.dirs, Head(todo), Head(todo))
       IN  /\ it.copied # {}
           /\ dirs' = [dirs EXCEPT !["dst"] = it.dirs]
           /\ files' = [files EXCEPT !["dst"] =
                          IF partly THEN WithFile(files["dst"], target, 0) ELSE files["dst"]]
           /\ partly \/ it.dirs # dirs["dst"]
    /\ pc' = "interrupted" /\ outcome' = "killed" /\ exitcode' = 1
    /\ UNCHANGED <<sidecar, edits, op, locals, startvars, rtvars, iovars>>

\* inside write_db: the file was opened for writing and k lines were written
InterruptWrite(k) ==
    /\ pc = "r_write"
    /\ k < Len(newdsthash)
    /\ sidecar' = [sidecar EXCEPT ![SumfileSide] = write_db(SubSeq(newdsthash, 1, k))]
    /\ writes' = [writes EXCEPT ![SumfileSide] = @ + 1]
    /\ pc' = "interrupted" /\ outcome' = "killed" /\ exitcode' = 1
    /\ UNCHANGED <<files, dirs, edits, op, locals, startvars, rtvars, argv, reads>>

\* the process is gone; the next run starts from the trees it left
Terminate ==
    /\ pc \in {"done", "crashed", "interrupted"}
    /\ pc' = "idle" /\ op' = "none" /\ side' = "none"
    /\ results' = EmptyData /\ commit' = <<>>
    /\ srcdata' = EmptyData /\ dstdata' = EmptyData
    /\ newdsthash' = <<>> /\ todo' = <<>> /\ reported' = <<>> /\ copied' = {}
    /\ outcome' = "none" /\ exitcode' = -1
    /\ files0' = NoTree /\ dirs0' = NoDirs /\ sidecar0' = NoSidecars
    /\ argv' = <<>> /\ reads' = NoCalls /\ writes' = NoCalls
    /\ UNCHANGED <<fsvars, edits, rtvars>>

Next ==
    \/ UserEdit
    \/ \E args \in BadArgs : MainUsage(args)
    \/ \E s \in Sides : InteractiveCheckScan(s)
    \/ \E answer \in Answers : InteractiveCheckAnswer(answer)
    \/ ReplicateCheck
    \/ ReplicateGate
    \/ ReplicateCopy
    \/ ReplicateReport
    \/ ReplicateWrite
    \/ Interrupt
    \/ \E partly \in BOOLEAN : InterruptCopy(partly)
    \/ \E k \in 0..MaxFiles : InterruptWrite(k)
    \/ Terminate

Spec == Init /\ [][Next]_vars

(***************************************************************************)
(* The round trip of a database through write_db and load_db.              *)
(***************************************************************************)
\* the characters of a key: a letter and a space
KeyChars == {"a", " "}
\* the keys: the strings of 1..MaxKeyLen such characters, none with a tab
RtKeys == UNION {[1..n -> KeyChars] : n \in 1..MaxKeyLen}
\* the dicts: at most MaxEntries keys, each with a digest
RtDbs ==
    UNION {{d \in [1..n -> RtKeys \X {Sha1(c) : c \in Contents}] :
              \A i, j \in 1..n : i # j => d[i][1] # d[j][1]} : n \in 0..MaxEntries}

InitRt ==
    /\ files = NoTree /\ dirs = NoDirs /\ sidecar = NoSidecars
    /\ edits = 0
    /\ Idle
    /\ rt_db \in RtDbs
    /\ rt_file = NoFile
    /\ rt_loaded = [ok |-> TRUE, db |-> <<>>]
    /\ rt_pc = "start"
    /\ GateIdle

\* write_db(sumfile, rt_db)
RtSave ==
    /\ rt_pc = "start"
    /\ rt_file' = write_db(rt_db)
    /\ rt_pc' = "saved"
    /\ UNCHANGED <<fsvars, edits, pc, op, locals, outcome, exitcode, startvars, rt_db, rt_loaded,
                   gate_data, gate_result, gate_pc, iovars>>

\* load_db(sumfile)
RtLoad ==
    /\ rt_pc = "saved"
    /\ rt_loaded' = load_db(rt_file)
    /\ rt_pc' = "loaded"
    /\ UNCHANGED <<fsvars, edits, pc, op, locals, outcome, exitcode, startvars, rt_db, rt_file,
                   gate_data, gate_result, gate_pc, iovars>>

NextRt == RtSave \/ RtLoad

SpecRt == InitRt /\ [][NextRt]_vars

(***************************************************************************)
(* The dirty gate on its own: is_dirty applied to any return of check.     *)
(***************************************************************************)
\* the (fileref, filehash) lists check can append: at most MaxEntries entries
GateEntries ==
    UNION {[1..n -> {<<"a">>, <<"b">>} \X {Sha1(c) : c \in Contents}] : n \in 0..MaxEntries}
\* the file lists check can append to deletions
GateFiles == UNION {[1..n -> {<<"a">>, <<"b">>}] : n \in 0..MaxEntries}
\* the return of check with these three lists
GateData(d, a, c) == [ok |-> TRUE, db |-> <<>>, deletions |-> d, additions |-> a, changes |-> c]

InitGate ==
    /\ files = NoTree /\ dirs = NoDirs /\ sidecar = NoSidecars
    /\ edits = 0
    /\ Idle
    /\ rt_db = <<>> /\ rt_file = NoFile /\ rt_loaded = [ok |-> TRUE, db |-> <<>>] /\ rt_pc = "none"
    /\ \E d \in GateFiles, a \in GateEntries, c \in GateEntries : gate_data = GateData(d, a, c)
    /\ gate_result = FALSE
    /\ gate_pc = "start"

\* is_dirty(data): it reads the three lists and assigns nothing
GateTest ==
    /\ gate_pc = "start"
    /\ gate_result' = is_dirty(gate_data)
    /\ gate_pc' = "tested"
    /\ UNCHANGED <<fsvars, edits, pc, op, locals, outcome, exitcode, startvars,
                   rt_db, rt_file, rt_loaded, rt_pc, gate_data, iovars>>

NextGate == GateTest

SpecGate == InitGate /\ [][NextGate]_vars

(***************************************************************************)
(* Properties.                                                             *)
(***************************************************************************)
\* a check result with an addition, a change or a deletion
HasDiff(data) == data.additions # <<>> \/ data.changes # <<>> \/ data.deletions # <<>>

\* tree s differed from its sidecar database when the run started
DirtyAtStart(s) ==
    LET loaded == load_db(sidecar0[s])
        scanned == FileList(files0[s])
    IN  /\ loaded.ok
        /\ \/ scanned # Keys(loaded.db)
           \/ \E p \in scanned : Get(loaded.db, p) # Sha1(files0[s][p])

\* the trees and the sidecars are as they were when the run started
Untouched == files = files0 /\ dirs = dirs0 /\ sidecar = sidecar0

\* C1: when the source or the destination differs from its own sidecar database
\* at the start of replicate, replicate copies no file, creates no directory and
\* leaves both trees and both sidecars as they were.
ReplicationSafety ==
    (op = "replicate" /\ (DirtyAtStart("src") \/ DirtyAtStart("dst")))
        => (Untouched /\ copied = {} /\ pc \notin {"r_loop", "r_write"})

ReplicationSafetyWitness ==
    /\ op = "replicate" /\ pc = "done" /\ outcome = "refused_dst"
    /\ DirtyAtStart("dst") /\ ~DirtyAtStart("src")
    /\ Keys(srcdata.db) # Keys(dstdata.db)

\* C2: a completed replicate leaves every path the destination database tracks
\* and the source database lacks present with its content, tracked with its
\* digest in the persisted destination sidecar, and reported.
DestructiveRefusal ==
    (op = "replicate" /\ pc = "done" /\ outcome = "replicated")
        => \A p \in Keys(dstdata.db) \ Keys(srcdata.db) :
              /\ p \in DOMAIN files["dst"]
              /\ files["dst"][p] = files0["dst"][p]
              /\ Get(load_db(sidecar["dst"]).db, p) = Get(dstdata.db, p)
              /\ \E i \in 1..Len(reported) : reported[i] = p

\* both trees were clean when replicate tested them
BothClean ==
    /\ op = "replicate" /\ pc \notin {"idle", "r_gate"}
    /\ srcdata.ok /\ dstdata.ok /\ ~HasDiff(srcdata) /\ ~HasDiff(dstdata)

\* C3: from a clean source and a clean destination replicate completes, and then
\* every path of the source database is in the destination with the source's
\* content and has the source's digest in the persisted destination sidecar.
ReplicationConvergence ==
    BothClean =>
        /\ pc # "crashed"
        /\ pc = "done" =>
              \A p \in Keys(srcdata.db) :
                  /\ p \in DOMAIN files["dst"]
                  /\ files["dst"][p] = files["src"][p]
                  /\ Get(load_db(sidecar["dst"]).db, p) = Get(srcdata.db, p)

\* C4: after a commit, loading the saved sidecar and scanning and diffing the
\* unchanged tree gives no addition, no change and no deletion.
CommitIdempotence ==
    (op = "check" /\ pc = "done" /\ outcome = "Committed")
        => \A r \in CheckResults(files[side], sidecar[side]) : r.ok /\ ~HasDiff(r)

\* C5: load_db of the file write_db wrote gives a mapping with the keys and the
\* digests of the dict that was written, for every dict whose keys have no tab.
DatabaseRoundTrip ==
    rt_pc = "loaded"
        => /\ rt_loaded.ok
           /\ Keys(rt_loaded.db) = Keys(rt_db)
           /\ \A k \in Keys(rt_db) : Get(rt_loaded.db, k) = Get(rt_db, k)

\* the elements of a sequence
Range(q) == {q[i] : i \in 1..Len(q)}

\* the result data classifies every path of the scan of tree and of the database
\* in sumfile exactly once
Classified(data, tree, sumfile) ==
    LET S == FileList(tree)
        db == load_db(sumfile).db
        D == Keys(db)
        A == {e[1] : e \in Range(data.additions)}
        C == {e[1] : e \in Range(data.changes)}
        X == Range(data.deletions)
        U == {p \in S \cap D : Get(db, p) = Sha1(tree[p])}
    IN  /\ Cardinality(A) = Len(data.additions)
        /\ Cardinality(C) = Len(data.changes)
        /\ Cardinality(X) = Len(data.deletions)
        /\ A \cap C = {} /\ A \cap X = {} /\ C \cap X = {}
        /\ U \cap (A \cup C \cup X) = {}
        /\ A \cup C \cup U = S
        /\ C \cup U \cup X = D

\* C6: check puts every path in exactly one of addition, change, deletion and
\* unchanged; additions, changes and unchanged paths are the scanned paths, and
\* changes, unchanged paths and deletions are the keys of the database.
DiffCompleteness ==
    /\ (op = "check" /\ pc = "c_prompt")
          => Classified(results, files[side], sidecar[side])
    /\ (op = "replicate" /\ pc = "r_gate")
          => /\ Classified(srcdata, files["src"], sidecar["src"])
             /\ Classified(dstdata, files["dst"], sidecar["dst"])

DiffCompletenessWitness ==
    /\ op = "check" /\ pc = "c_prompt"
    /\ results.additions # <<>> /\ results.changes # <<>> /\ results.deletions # <<>>

\* C7: the workflow commits (database updated, sidecar rewritten) exactly when
\* the answer begins with y or Y; after any other answer it is canceled and the
\* sidecars and the trees are as they were.
ReviewDecision ==
    (op = "check" /\ pc = "done") =>
        LET yes == commit # <<>> /\ commit[1] \in {"y", "Y"}
        IN  /\ outcome = (IF yes THEN "Committed" ELSE "Canceled")
            /\ ~yes => Untouched
            /\ yes => /\ files = files0 /\ dirs = dirs0
                      /\ sidecar[side] = write_db(results.db)
                      /\ Keys(results.db) = FileList(files[side])
                      /\ \A p \in FileList(files[side]) :
                            Get(results.db, p) = Sha1(files[side][p])

ReviewDecisionWitness ==
    /\ op = "check" /\ pc = "done" /\ outcome = "Committed"
    /\ commit = <<"Y">> /\ sidecar # sidecar0

\* C8: when the reviewer declines, the process ends with a non-zero exit status.
CancellationOutcome ==
    (op = "check" /\ pc = "done" /\ outcome = "Canceled") => exitcode # 0

\* a line of the file has no tab separator
HasMalformedLine(sumfile) ==
    /\ sumfile.exists
    /\ \E i \in 1..Len(readlines(sumfile.text)) :
          \A j \in 1..Len(readlines(sumfile.text)[i]) : readlines(sumfile.text)[i][j] # TAB

\* C9: when a sidecar the run loads has a line without a tab, the run aborts as
\* a fatal error with no file copied, no directory made and no sidecar written.
MalformedDatabase ==
    /\ (op = "check" /\ HasMalformedLine(sidecar0[side]))
          => (pc = "crashed" /\ exitcode # 0 /\ Untouched)
    /\ (op = "replicate"
        /\ (HasMalformedLine(sidecar0["src"]) \/ HasMalformedLine(sidecar0["dst"])))
          => (pc = "crashed" /\ exitcode # 0 /\ Untouched /\ copied = {})

MalformedDatabaseWitness ==
    /\ op = "replicate" /\ pc = "crashed"
    /\ HasMalformedLine(sidecar0["dst"]) /\ ~HasMalformedLine(sidecar0["src"])
    /\ files["src"] # <<>>

\* C10: while replicate has not finished, and after it was interrupted or
\* failed, the persisted destination sidecar gives a path a digest other than
\* the one it had only if that is the source's digest and the path's copy has
\* completed; the copy loop leaves the sidecar alone.
CrashConsistency ==
    (op = "replicate" /\ srcdata.ok /\ dstdata.ok
     /\ pc \in {"r_gate", "r_loop", "r_write", "interrupted", "crashed"})
        => LET now == load_db(sidecar["dst"])
               before == load_db(sidecar0["dst"])
           IN  /\ pc \in {"r_gate", "r_loop", "r_write"} => sidecar = sidecar0
               /\ todo # <<>> => sidecar = sidecar0
               /\ sidecar["src"] = sidecar0["src"]
               /\ now.ok
               /\ \A p \in Keys(now.db) :
                     Get(now.db, p) # Get(before.db, p)
                         => (p \in copied /\ Get(now.db, p) = Get(srcdata.db, p))

CrashConsistencyWitness ==
    /\ op = "replicate" /\ pc = "interrupted"
    /\ copied # {} /\ todo # <<>>
    /\ files["dst"] # files0["dst"]

\* C11: whatever check returned, is_dirty answers true exactly when one of
\* additions, changes, deletions is non-empty (so false for the empty diff),
\* and its call changes neither its argument nor any tree or sidecar.
DirtyGateCorrectness ==
    [][gate_pc = "start" /\ gate_pc' = "tested" =>
          /\ gate_result' <=> (gate_data.additions # <<>> \/ gate_data.changes # <<>>
                                  \/ gate_data.deletions # <<>>)
          /\ (gate_data.additions = <<>> /\ gate_data.changes = <<>>
                 /\ gate_data.deletions = <<>> => gate_result' = FALSE)
          /\ gate_data' = gate_data
          /\ UNCHANGED fsvars]_vars

\* is_dirty has answered true for a diff whose only non-empty list is changes
DirtyGateCorrectnessWitness ==
    /\ gate_pc = "tested" /\ gate_result
    /\ gate_data.changes # <<>> /\ gate_data.additions = <<>> /\ gate_data.deletions = <<>>

\* data is what check reports for tree when it knows no file: every scanned
\* file an addition with its digest, listed once, and nothing else
AllAdditions(data, tree) ==
    /\ data.ok /\ data.db = <<>>
    /\ {e[1] : e \in Range(data.additions)} = FileList(tree)
    /\ Len(data.additions) = Cardinality(FileList(tree))
    /\ \A e \in Range(data.additions) : e[2] = Sha1(tree[e[1]])
    /\ data.changes = <<>> /\ data.deletions = <<>>

\* C12: when a tree has no sidecar file, load_db gives the empty mapping, the
\* run does not fail on it and does not create the sidecar while checking, and
\* check reports every scanned file as an addition, with no change and no deletion.
ColdStart ==
    /\ load_db(NoFile) = [ok |-> TRUE, db |-> <<>>]
    /\ (op = "check" /\ ~sidecar0[side].exists)
          => /\ pc # "crashed"
             /\ pc = "c_prompt" => (AllAdditions(results, files[side]) /\ ~sidecar[side].exists)
    /\ (op = "replicate" /\ pc = "r_gate" /\ ~sidecar0["src"].exists)
          => (AllAdditions(srcdata, files["src"]) /\ ~sidecar["src"].exists)
    /\ (op = "replicate" /\ pc = "r_gate" /\ ~sidecar0["dst"].exists)
          => (AllAdditions(dstdata, files["dst"]) /\ ~sidecar["dst"].exists)

\* check has scanned a tree of two files that has no sidecar
ColdStartWitness ==
    /\ op = "check" /\ pc = "c_prompt"
    /\ ~sidecar0[side].exists
    /\ Len(results.additions) = 2

\* C13: check scans every file of the tree except the sidecar itself and the
\* names ending in ".sha1sums_new": each such file is an addition or a key of
\* the database, a user file like "b.sha1sums" included.
ScannerExclusion ==
    (op = "check" /\ pc = "c_prompt")
        => \A p \in DOMAIN files[side] :
              (p # SidecarName /\ ~EndsWith(Basename(p), SidecarNewName))
                  => (p \in {e[1] : e \in Range(results.additions)} \/ Has(results.db, p))

\* C14: a run whose command line has no subcommand, or one that is neither
\* "check" nor "replicate", ends having printed the usage message, with a
\* non-zero exit code, and having read and written no tree and no sidecar.
CommandSurface ==
    (op = "main" /\ pc \in {"done", "crashed"}
     /\ (argv = <<>> \/ argv[1] \notin {"check", "replicate"}))
        => /\ outcome = "usage"
           /\ exitcode # 0
           /\ Untouched
           /\ reads = NoCalls /\ writes = NoCalls

\* C15: where replicate calls make_parents for a path none of whose ancestors
\* is a file, the call raises nothing and leaves every ancestor directory of
\* the path existing, however many were missing; a second call changes nothing.
MakeParentsTotal ==
    (op = "replicate" /\ pc = "r_loop" /\ todo # <<>>
     /\ ~Truthy(Get(newdsthash, Head(todo)))
     /\ \A d \in Ancestors(Head(todo)) : d \notin DOMAIN files["dst"])
        => LET m == make_parents(files["dst"], dirs["dst"], Head(todo))
           IN  /\ m.ok
               /\ Ancestors(Head(todo)) \subseteq m.dirs
               /\ make_parents(files["dst"], m.dirs, Head(todo)) = [ok |-> TRUE, dirs |-> m.dirs]

\* no sidecar is read or written twice; nothing is changed before the reads
\* are over; a write is the last step of its run, in replicate after the copy
\* loop has ended; a completed replicate of two clean trees has written the
\* destination sidecar once; check touches one sidecar and replicate never
\* writes the source's
WriteOrdering ==
    /\ \A s \in Sides : reads[s] <= 1 /\ writes[s] <= 1
    /\ pc \in {"c_prompt", "r_gate"} => (Untouched /\ writes = NoCalls)
    /\ pc \in {"r_loop", "r_write"} => (sidecar = sidecar0 /\ writes = NoCalls)
    /\ op = "check"
          => /\ \A s \in Sides \ {side} : reads[s] = 0 /\ writes[s] = 0
             /\ writes[side] = 1 => (pc = "done" /\ outcome = "Committed")
    /\ op = "replicate"
          => /\ writes["src"] = 0
             /\ writes["dst"] = 1 => (pc \in {"done", "interrupted"} /\ todo = <<>>)
             /\ (pc = "done" /\ outcome = "replicated") => writes["dst"] = 1

ToCopy(srcdb, dstdb) ==
    {p \in Keys(srcdb) : ~Has(dstdb, p) \/ Get(dstdb, p) # Get(srcdb, p)}

\* C17: when a replicate of two clean trees has ended, the files it copied are
\* exactly the source database's paths that the destination database lacked or
\* recorded with another digest; a path with equal digests was not copied and
\* its destination file and sidecar entry are as they were.
CopyMinimality ==
    (op = "replicate" /\ pc \in {"done", "crashed"}
     /\ srcdata.ok /\ dstdata.ok /\ ~HasDiff(srcdata) /\ ~HasDiff(dstdata))
        => /\ copied = ToCopy(srcdata.db, dstdata.db)
           /\ \A p \in Keys(srcdata.db) \ ToCopy(srcdata.db, dstdata.db) :
                 /\ p \notin copied
                 /\ p \in DOMAIN files["dst"] /\ files["dst"][p] = files0["dst"][p]
                 /\ Get(load_db(sidecar["dst"]).db, p) = Get(dstdata.db, p)

\* C18: throughout a run of replicate, refused or not, the source tree, its
\* directories and its sidecar are as they were when the run started, and
\* write_db was never called for the source; only the destination changes.
SourceReadOnly ==
    op = "replicate"
        => /\ files["src"] = files0["src"]
           /\ dirs["src"] = dirs0["src"]
           /\ sidecar["src"] = sidecar0["src"]
           /\ writes["src"] = 0

\* replicate has completed after copying a file and rewriting the destination sidecar
SourceReadOnlyWitness ==
    /\ op = "replicate" /\ pc = "done" /\ outcome = "replicated"
    /\ copied # {}
    /\ files["dst"] # files0["dst"] /\ sidecar["dst"] # sidecar0["dst"]
    /\ writes["dst"] = 1

\* C19: after a completed replicate of two clean trees, check of the
\* destination against the sidecar just written finds no addition, change or
\* deletion, so a repeated replicate is not refused, has nothing to copy, and
\* writes the same sidecar again.
ReplicationIdempotence ==
    (op = "replicate" /\ pc = "done" /\ outcome = "replicated")
        => \A again \in CheckResults(files["dst"], sidecar["dst"]) :
              /\ again.ok /\ ~is_dirty(again)
              /\ ~is_dirty(srcdata)
              /\ ToCopy(srcdata.db, again.db) = {}
              /\ write_db(again.db) = sidecar["dst"]

====
